---- MODULE Spec2Model ----
(***************************************************************************)
(* The evolution-session controller of the Shakespeare GA front-end        *)
(* (App.tsx): session state, the interval timer handle, and the            *)
(* asynchronous handlers handleStart, evolveGeneration, stopEvolution and  *)
(* handleReset, run against the remote GA service reached through gaAPI.   *)
(* Every await splits a handler in two steps: the call reaches the service *)
(* when it is issued and its answer travels back for as long as it likes,  *)
(* so overlapping handlers interleave as they do on the browser's event    *)
(* loop and answers may arrive in another order than they were produced.   *)
(***************************************************************************)
EXTENDS Integers, Sequences, FiniteSets, TLC

\* ------------------------------------------------------------------ bounds
MaxOps == 4         \* start(), reset(), interval firings and rejected calls in one behaviour
MaxFit == 1         \* fitness levels 0..MaxFit; MaxFit is the exact match
MaxPoints == 3      \* points of a charted history, and its largest generation

\* ------------------------------------------------------------- vocabulary
Null == "null"
Targets == {"TO BE", "WHAT IS IN A NAME"}
\* error.message of a rejected call; "" is a rejection without a message
Messages == {"Network Error", ""}

HealthMessage == "Cannot connect to API. Make sure the backend is running on http://localhost:8000"

Individual(t, f) == [genes |-> <<t, f>>, fitness |-> f]
NullIndividual == [genes |-> <<>>, fitness |-> -1]

NoStats == [generation |-> 0, best_fitness |-> 0, avg_fitness |-> 0]

VARIABLES
    state,      \* the AppState held by useState
    ref,        \* evolutionIntervalRef.current: a timer id, 0 for null
    timers,     \* interval timers that are active (set and not yet cleared)
    nTimers,    \* timers created so far (the next id is nTimers + 1)
    starts,     \* handleStart invocations suspended at await gaAPI.initialize
    ticks,      \* evolveGeneration invocations suspended at one of their awaits
    resets,     \* handleReset invocations suspended at await gaAPI.reset
    svc,        \* the remote GA service
    nOps,       \* start(), reset(), interval firings and rejections so far
    obs,        \* what has happened since the last start()/reset()
    canvas      \* what FitnessChart's effect has drawn on its canvas

vars == <<state, ref, timers, nTimers, starts, ticks, resets, svc,
          nOps, obs, canvas>>

\* ------------------------------------------------------------ the client
InitialState ==
    [isInitialized |-> FALSE,
     isRunning |-> FALSE,
     generation |-> 0,
     target |-> "",
     population |-> <<>>,
     bestEver |-> NullIndividual,
     averageFitness |-> 0,
     isComplete |-> FALSE,
     history |-> <<>>,
     error |-> Null]

\* useEffect, lines 46-49
HealthCheckFailed(prev) == [prev EXCEPT !.error = HealthMessage]

\* error.message || fallback
MessageOr(msg, fallback) == IF msg = "" THEN fallback ELSE msg

\* handleStart, line 61
HandleStartBegin(prev) == [prev EXCEPT !.error = Null]

\* handleStart's success update also clearing the error
HandleStartThenClearsError(prev, target, population) ==
    [prev EXCEPT !.isInitialized = TRUE,
                 !.isRunning = TRUE,
                 !.target = target,
                 !.generation = 0,
                 !.population = population,
                 !.error = Null]

\* handleStart, lines 72-79
HandleStartThen(prev, target, population) ==
    [prev EXCEPT !.isInitialized = TRUE,
                 !.isRunning = TRUE,
                 !.target = target,
                 !.generation = 0,
                 !.population = population]

\* handleStart's catch without the fallback message
HandleStartCatchNoFallback(prev, msg) == [prev EXCEPT !.error = msg]

\* handleStart, lines 85-90
HandleStartCatch(prev, msg) ==
    [prev EXCEPT !.error = MessageOr(msg, "Failed to initialize GA")]

\* a reconciliation that appends the fetched history to the one it holds
ReconcileAppends(prev, population, stats, bestEver, isComplete, history) ==
    [prev EXCEPT !.population = population,
                 !.generation = stats.generation,
                 !.averageFitness = stats.avg_fitness,
                 !.bestEver = bestEver,
                 !.isComplete = isComplete,
                 !.history = prev.history \o history]

\* a reconciliation that also derives the running flag from is_complete
ReconcileResumesRunning(prev, population, stats, bestEver, isComplete, history) ==
    [prev EXCEPT !.population = population,
                 !.generation = stats.generation,
                 !.averageFitness = stats.avg_fitness,
                 !.bestEver = bestEver,
                 !.isComplete = isComplete,
                 !.history = history,
                 !.isRunning = ~isComplete]

\* evolveGeneration, lines 109-117
Reconcile(prev, population, stats, bestEver, isComplete, history) ==
    [prev EXCEPT !.population = population,
                 !.generation = stats.generation,
                 !.averageFitness = stats.avg_fitness,
                 !.bestEver = bestEver,
                 !.isComplete = isComplete,
                 !.history = history]

\* setState((prev) => ({ ...prev, isRunning: false }))
NotRunning(prev) == [prev EXCEPT !.isRunning = FALSE]

\* if (ref.current) { clearInterval(ref.current); ref.current = null }
ClearedTimers(ts, r) == IF r # 0 THEN ts \ {r} ELSE ts
ClearedRef(r) == 0

\* a reset that leaves the session marked initialized
HandleResetThenStaysInitialized == [InitialState EXCEPT !.isInitialized = TRUE]

\* handleReset, lines 150-161
HandleResetThen == InitialState

\* a catch that clears the local state as well as surfacing the error
HandleResetCatchClears(prev, msg) ==
    [InitialState EXCEPT !.error = MessageOr(msg, "Failed to reset")]

\* handleReset, lines 162-167
HandleResetCatch(prev, msg) ==
    [prev EXCEPT !.error = MessageOr(msg, "Failed to reset")]

\* a catch that also surfaces the error, as handleStart's does
HandleEvolveCatchSetsError(prev) ==
    [prev EXCEPT !.isRunning = FALSE, !.error = "Evolution error"]

\* evolveGeneration's catch: line 134 (the error is logged, line 129)
HandleEvolveCatch(prev) == NotRunning(prev)

\* -------------------------------------------------------------- the chart
\* FitnessChart.tsx: the canvas is 800 x 400 with a margin of 40
Width == 800
Height == 400
Padding == 40

Max2(a, b) == IF a >= b THEN a ELSE b

\* Math.max(...data.map((d) => d.generation))
RECURSIVE MaxGeneration(_)
MaxGeneration(data) ==
    IF Len(data) = 1 THEN data[1].generation
    ELSE Max2(data[1].generation, MaxGeneration(Tail(data)))

\* the largest generation without the clamp to 1
ChartMaxGenUnclamped(data) == MaxGeneration(data)

\* line 65
ChartMaxGen(data) == Max2(1, MaxGeneration(data))

\* line 75: x = padding + (generation / maxGen) * (width - 2 * padding),
\* kept as the fraction num / den (den = maxGen) so that nothing is rounded
ChartX(point, maxGen) ==
    [num |-> Padding * maxGen + point.generation * (Width - 2 * Padding),
     den |-> maxGen]

Blank == [drawn |-> FALSE, maxGen |-> 0, xs |-> <<>>]

\* the effect, lines 18-131: nothing is drawn for empty data
Drawn(old, data) ==
    IF Len(data) = 0 THEN old
    ELSE LET maxGen == ChartMaxGen(data)
         IN [drawn |-> TRUE, maxGen |-> maxGen,
             xs |-> [i \in 1..Len(data) |-> ChartX(data[i], maxGen)]]

\* ----------------------------------------------------------- the service
SvcDown ==
    [initialized |-> FALSE, target |-> "", generation |-> 0,
     best |-> NullIndividual, history |-> <<>>]

SvcInitialized(t) ==
    [initialized |-> TRUE, target |-> t, generation |-> 0,
     best |-> Individual(t, 0), history |-> <<>>]

InitialPopulation(t) == <<Individual(t, 0)>>

\* one generation: the generation's best has fitness f, its average is a
SvcEvolved(s, f, a) ==
    LET g == s.generation + 1
        b == IF f > s.best.fitness THEN Individual(s.target, f) ELSE s.best
    IN [s EXCEPT !.generation = g,
                 !.best = b,
                 !.history = Append(s.history,
                     [generation |-> g, best_fitness |-> f, avg_fitness |-> a])]

\* --------------------------------------------------------------- actions
\* What has happened since the last start() (or, for best and tickFailed,
\* reset()): a tick reconciled is_complete, stop() was called, a reset
\* failed, a tick failed; since is the value of nOps at that start()/reset()
\* and best the bestEver.fitness last reconciled by a tick dispatched after it.
NoObs ==
    [complete |-> FALSE, stopped |-> FALSE, resetFailed |-> FALSE,
     tickFailed |-> FALSE, since |-> 0, best |-> -1]

\* The state once App is mounted and its health check (useEffect, lines
\* 38-50) has resolved or rejected.
Init ==
    /\ state \in {InitialState, HealthCheckFailed(InitialState)}
    /\ ref = 0
    /\ timers = {}
    /\ nTimers = 0
    /\ starts = {}
    /\ ticks = {}
    /\ resets = {}
    /\ svc = SvcDown
    /\ nOps = 0
    /\ obs = NoObs
    /\ canvas = Blank

\* The Start button (shown while !isRunning) calls handleStart, which runs
\* to its await (lines 59-70); the service handles POST /initialize.
StartCall(t) ==
    /\ ~state.isRunning
    /\ nOps < MaxOps
    /\ state' = HandleStartBegin(state)
    /\ svc' = SvcInitialized(t)
    /\ starts' = starts \cup
          {[id |-> nOps + 1, target |-> t,
            population |-> InitialPopulation(t)]}
    /\ nOps' = nOps + 1
    /\ obs' = [NoObs EXCEPT !.since = nOps + 1]
    /\ UNCHANGED canvas
    /\ UNCHANGED <<ref, timers, nTimers, ticks, resets>>

\* handleStart resumes with the response: lines 72-84
StartOk(s) ==
    /\ state' = HandleStartThen(state, s.target, s.population)
    /\ timers' = timers \cup {nTimers + 1}
    /\ ref' = nTimers + 1
    /\ nTimers' = nTimers + 1
    /\ starts' = starts \ {s}
    /\ UNCHANGED canvas
    /\ UNCHANGED <<ticks, resets, svc, obs, nOps>>

\* handleStart resumes with a rejection: lines 85-90
StartFail(s, msg) ==
    /\ nOps < MaxOps
    /\ state' = HandleStartCatch(state, msg)
    /\ starts' = starts \ {s}
    /\ nOps' = nOps + 1
    /\ UNCHANGED canvas
    /\ UNCHANGED <<ref, timers, nTimers, ticks, resets, svc, obs>>

NewTick(t) ==
    [id |-> nOps + 1, timer |-> t, pc |-> "evolve", ok |-> FALSE,
     population |-> <<>>, stats |-> NoStats, isComplete |-> FALSE,
     history |-> <<>>, bestEver |-> NullIndividual]

\* An active interval timer fires and calls evolveGeneration, which runs to
\* its first await (lines 82-84, 93-95); the service handles POST /evolve
\* {generations: 1}, the generation's best having fitness f (the service
\* keeps its elite, so f is never below the best so far), or refuses the
\* call when it holds no session.
TimerFire(t, f) ==
    /\ t \in timers
    /\ nOps < MaxOps
    /\ IF svc.initialized
       THEN /\ f >= svc.best.fitness
            /\ svc' = SvcEvolved(svc, f, f)
            /\ ticks' = ticks \cup
                 {[NewTick(t) EXCEPT
                     !.ok = TRUE,
                     !.population = <<Individual(svc.target, f)>>,
                     !.stats = [generation |-> svc.generation + 1,
                                best_fitness |-> f, avg_fitness |-> f],
                     !.isComplete = (f = MaxFit)]}
       ELSE /\ f = 0
            /\ ticks' = ticks \cup {NewTick(t)}
            /\ UNCHANGED svc
    /\ nOps' = nOps + 1
    /\ UNCHANGED canvas
    /\ UNCHANGED <<state, ref, timers, nTimers, starts, resets, obs>>

\* a tick that writes the population as soon as gaAPI.evolve has returned
TickEvolveOkWritesPopulation(k) ==
    /\ k.pc = "evolve" /\ k.ok
    /\ ticks' = (ticks \ {k}) \cup
          {[k EXCEPT !.pc = "history", !.ok = svc.initialized,
                     !.history = IF svc.initialized THEN svc.history ELSE <<>>]}
    /\ state' = [state EXCEPT !.population = k.population]
    /\ UNCHANGED <<ref, timers, nTimers, starts, resets, svc, obs, nOps, canvas>>

\* evolveGeneration resumes after gaAPI.evolve and calls gaAPI.getHistory
\* (lines 97-102); the service handles GET /history.
TickEvolveOk(k) ==
    /\ k.pc = "evolve" /\ k.ok
    /\ ticks' = (ticks \ {k}) \cup
          {[k EXCEPT !.pc = "history", !.ok = svc.initialized,
                     !.history = IF svc.initialized THEN svc.history ELSE <<>>]}
    /\ UNCHANGED canvas
    /\ UNCHANGED <<state, ref, timers, nTimers, starts, resets, svc, obs, nOps>>

\* evolveGeneration resumes after gaAPI.getHistory and calls gaAPI.getBest
\* (lines 103-106); the service handles GET /best.
TickHistoryOk(k) ==
    /\ k.pc = "history" /\ k.ok
    /\ ticks' = (ticks \ {k}) \cup
          {[k EXCEPT !.pc = "best", !.ok = svc.initialized,
                     !.bestEver = IF svc.initialized THEN svc.best
                                  ELSE NullIndividual]}
    /\ UNCHANGED canvas
    /\ UNCHANGED <<state, ref, timers, nTimers, starts, resets, svc, obs, nOps>>

\* evolveGeneration resumes after gaAPI.getBest: lines 107-127
TickBestOk(k) ==
    /\ k.pc = "best" /\ k.ok
    /\ LET next == Reconcile(state, k.population, k.stats, k.bestEver,
                             k.isComplete, k.history)
       IN IF k.isComplete
          THEN /\ timers' = ClearedTimers(timers, ref)
               /\ ref' = ClearedRef(ref)
               /\ state' = NotRunning(next)
          ELSE /\ state' = next
               /\ UNCHANGED <<timers, ref>>
    /\ ticks' = ticks \ {k}
    /\ obs' = [obs EXCEPT !.complete = @ \/ k.isComplete,
                          !.best = IF k.id > obs.since
                                   THEN k.bestEver.fitness ELSE @]
    /\ UNCHANGED canvas
    /\ UNCHANGED <<nTimers, starts, resets, svc, nOps>>

\* One of evolveGeneration's three awaits rejects (lines 128-135): the
\* service refused the call, or the network lost it or its answer.
TickFail(k) ==
    /\ k.ok => nOps < MaxOps
    /\ timers' = ClearedTimers(timers, ref)
    /\ ref' = ClearedRef(ref)
    /\ state' = HandleEvolveCatch(state)
    /\ ticks' = ticks \ {k}
    /\ nOps' = IF k.ok THEN nOps + 1 ELSE nOps
    /\ obs' = [obs EXCEPT !.tickFailed = TRUE]
    /\ UNCHANGED canvas
    /\ UNCHANGED <<nTimers, starts, resets, svc>>

\* The Stop button (shown while isRunning) calls stopEvolution: lines 138-144
Stop ==
    /\ state.isRunning
    /\ timers' = ClearedTimers(timers, ref)
    /\ ref' = ClearedRef(ref)
    /\ state' = NotRunning(state)
    /\ obs' = [obs EXCEPT !.stopped = TRUE]
    /\ UNCHANGED canvas
    /\ UNCHANGED <<nTimers, starts, ticks, resets, svc, nOps>>

\* The Reset button (enabled while !isRunning) calls handleReset, which runs
\* stopEvolution and suspends at its await (lines 146-149); the service
\* handles POST /reset.
ResetCall ==
    /\ ~state.isRunning
    /\ nOps < MaxOps
    /\ timers' = ClearedTimers(timers, ref)
    /\ ref' = ClearedRef(ref)
    /\ state' = NotRunning(state)
    /\ svc' = SvcDown
    /\ resets' = resets \cup {[id |-> nOps + 1]}
    /\ nOps' = nOps + 1
    /\ obs' = [obs EXCEPT !.tickFailed = FALSE, !.since = nOps + 1,
                          !.best = -1]
    /\ UNCHANGED canvas
    /\ UNCHANGED <<nTimers, starts, ticks>>

\* handleReset resumes with the response: lines 150-161
ResetOk(r) ==
    /\ state' = HandleResetThen
    /\ resets' = resets \ {r}
    /\ UNCHANGED canvas
    /\ UNCHANGED <<ref, timers, nTimers, starts, ticks, svc, obs, nOps>>

\* handleReset resumes with a rejection: lines 162-167
ResetFail(r, msg) ==
    /\ nOps < MaxOps
    /\ state' = HandleResetCatch(state, msg)
    /\ resets' = resets \ {r}
    /\ nOps' = nOps + 1
    /\ obs' = [obs EXCEPT !.resetFailed = TRUE]
    /\ UNCHANGED canvas
    /\ UNCHANGED <<ref, timers, nTimers, starts, ticks, svc>>

Next ==
    \/ \E t \in Targets : StartCall(t)
    \/ \E s \in starts : StartOk(s)
    \/ \E s \in starts, msg \in Messages : StartFail(s, msg)
    \/ \E t \in timers, f \in 0..MaxFit : TimerFire(t, f)
    \/ \E k \in ticks : TickEvolveOk(k)
    \/ \E k \in ticks : TickHistoryOk(k)
    \/ \E k \in ticks : TickBestOk(k)
    \/ \E k \in ticks : TickFail(k)
    \/ Stop
    \/ ResetCall
    \/ \E r \in resets : ResetOk(r)
    \/ \E r \in resets, msg \in Messages : ResetFail(r, msg)

Spec == Init /\ [][Next]_vars

\* ---------------------------------------------------------------- claims
Dispatch == \E t \in timers, f \in 0..MaxFit : TimerFire(t, f)

\* C1: once a tick has reconciled is_complete = true, no evolve request is
\* issued (no interval firing dispatches a tick) until a new start().
C1_NoEvolveAfterComplete == [][obs.complete => ~Dispatch]_vars

\* C2: after stop(), no poll tick is dispatched until the next start().
C2_NoDispatchAfterStop == [][obs.stopped => ~Dispatch]_vars

\* C3: when reset() finishes with a successful remote reset, the session
\* state is generation 0, empty population and history, bestEver null,
\* error null, averageFitness 0, not complete, not initialized, not running.
C3_ResetClearsAllFields ==
    [][\A r \in resets : ResetOk(r) =>
          /\ state'.generation = 0
          /\ state'.population = <<>>
          /\ state'.bestEver = NullIndividual
          /\ state'.history = <<>>
          /\ state'.error = Null
          /\ state'.averageFitness = 0
          /\ ~state'.isComplete
          /\ ~state'.isInitialized
          /\ ~state'.isRunning]_vars

\* a session ran and was reset since, and nothing has refilled the state
C3_Witness ==
    /\ nTimers > 0
    /\ resets = {}
    /\ ~state.isInitialized
    /\ state.population = <<>>
    /\ state.error = Null

\* C4 as stated: when the remote reset fails, the local state is still
\* cleared to its initial values.
C4_ResetFailureClears ==
    [][\A r \in resets, msg \in Messages : ResetFail(r, msg) =>
          /\ state'.generation = 0
          /\ state'.population = <<>>
          /\ state'.history = <<>>
          /\ state'.bestEver = NullIndividual
          /\ ~state'.isInitialized
          /\ ~state'.isRunning]_vars

\* C4 amended: when the remote reset fails, the failure handler changes the
\* error field alone, to the failure message (or "Failed to reset" when the
\* rejection has none); every other field keeps its value.
C4_ResetFailureKeepsState ==
    [][\A r \in resets, msg \in Messages : ResetFail(r, msg) =>
          state' = [state EXCEPT
                      !.error = IF msg = "" THEN "Failed to reset" ELSE msg]]_vars

\* a reset failed on a session that had data, and the data is still there
C4_Witness ==
    /\ state.error = "Failed to reset"
    /\ state.isInitialized
    /\ state.population # <<>>
    /\ state.generation > 0

\* C5: when the remote reset fails, error is the failure message, the
\* interval timer is cancelled, the running flag is false, and no tick is
\* dispatched afterwards until a new start().
C5_ResetFailureStopsLoop ==
    [][/\ \A r \in resets, msg \in Messages : ResetFail(r, msg) =>
             /\ state'.error = (IF msg = "" THEN "Failed to reset" ELSE msg)
             /\ timers' = {}
             /\ ref' = 0
             /\ ~state'.isRunning
       /\ obs.resetFailed => ~Dispatch]_vars

\* C6: when start()'s initialize call fails, the running and initialized
\* flags keep their values, error is the failure message (or "Failed to
\* initialize GA"), no interval timer is created and no tick is dispatched.
C6_StartFailureStaysIdle ==
    [][\A s \in starts, msg \in Messages : StartFail(s, msg) =>
          /\ state'.isRunning = state.isRunning
          /\ state'.isInitialized = state.isInitialized
          /\ state'.error = (IF msg = "" THEN "Failed to initialize GA" ELSE msg)
          /\ timers' = timers
          /\ nTimers' = nTimers
          /\ ref' = ref
          /\ ticks' = ticks]_vars

\* a start failed in Idle: the session is still Idle, with no timer
C6_Witness ==
    /\ state.error = "Failed to initialize GA"
    /\ ~state.isInitialized
    /\ ~state.isRunning
    /\ starts = {}
    /\ nTimers = 0

Idle(st) == ~st.isInitialized /\ ~st.isRunning

\* C7 as stated: when start(target, config) succeeds from Idle, the state is
\* Running with generation 0, the given target, the returned population and
\* error = null, and the interval timer is created in that step, not before.
C7_StartSuccess ==
    [][\A s \in starts : (Idle(state) /\ StartOk(s)) =>
          /\ state'.isRunning
          /\ state'.isInitialized
          /\ state'.generation = 0
          /\ state'.target = s.target
          /\ state'.population = s.population
          /\ state'.error = Null
          /\ ref' \in timers' \ timers]_vars

\* C7 amended: error is set to null when start() is invoked, with no timer
\* created and no tick dispatched by the invocation; when initialize has
\* succeeded from Idle the state is Running with generation 0, the given
\* target and the returned population, error is left as it stands, and the
\* interval timer is created in that step, not before.
C7_StartSuccessKeepsError ==
    [][/\ \A t \in Targets : StartCall(t) =>
             /\ state'.error = Null
             /\ timers' = timers /\ ref' = ref /\ ticks' = ticks
       /\ \A s \in starts : (Idle(state) /\ StartOk(s)) =>
             /\ state'.isRunning
             /\ state'.isInitialized
             /\ state'.generation = 0
             /\ state'.target = s.target
             /\ state'.population = s.population
             /\ state'.error = state.error
             /\ ref' \in timers' \ timers]_vars

\* a start has succeeded while the error of a failed reset is showing
C7_Witness ==
    /\ state.isRunning
    /\ state.generation = 0
    /\ state.target \in Targets
    /\ state.population = InitialPopulation(state.target)
    /\ state.error = "Failed to reset"
    /\ ref \in timers

\* C8: if one of a tick's calls fails, the interval timer is cancelled and
\* the running flag is false, and the controller issues no further call to
\* the service (no evolve, history or best) until a start() or reset().
C8_TickFailureStopsAllCalls ==
    [][/\ \A k \in ticks : TickFail(k) =>
             /\ timers' = {}
             /\ ref' = 0
             /\ ~state'.isRunning
             /\ k \notin ticks'
       /\ obs.tickFailed =>
             /\ ~Dispatch
             /\ \A k \in ticks : ~TickEvolveOk(k) /\ ~TickHistoryOk(k)]_vars

\* C9: within one session (between start()/reset() invocations, the
\* service's best ever never decreasing), bestEver.fitness never decreases
\* from one reconciliation to the next.
C9_BestEverMonotonic ==
    [][\A k \in ticks :
          (TickBestOk(k) /\ k.id > obs.since /\ obs.best # -1) =>
              state'.bestEver.fitness >= obs.best]_vars

Reconciled(st, k) ==
    Reconcile(st, k.population, k.stats, k.bestEver, k.isComplete, k.history)

\* C10: reconciliation is idempotent: applying a tick's response twice
\* yields the same session state as applying it once.
C10_ReconcileIdempotent ==
    \A k \in ticks :
        (k.pc = "best" /\ k.ok) =>
            Reconciled(Reconciled(state, k), k) = Reconciled(state, k)

\* a complete response is about to be reconciled into a state that already
\* holds the data of an earlier tick, and it changes that state
C10_Witness ==
    \E k \in ticks :
        /\ k.pc = "best" /\ k.ok
        /\ state.history # <<>>
        /\ k.history # <<>>
        /\ Reconciled(state, k) # state

\* C11: whenever the session is Idle (not initialized, not running) the
\* population is empty, also when a tick was in flight at stop() and reset().
C11_IdleHasNoPopulation == Idle(state) => state.population = <<>>

\* any step but handleStart's resumption with a successful initialize
NoStartOk == \A s \in starts : ~StartOk(s)

\* C12: a tick that completes after stop() or reset() never puts the session
\* back into Running: while the running flag is false, no step of a tick (nor
\* any step other than a start resuming with its initialize response) sets it.
C12_TickNeverResumesRunning ==
    [][(~state.isRunning /\ NoStartOk) => ~state'.isRunning]_vars

\* a tick has been reconciled after the reset that followed its session:
\* the state holds its data, and the session is not running
C12_Witness ==
    /\ nTimers > 0
    /\ ~state.isInitialized
    /\ state.generation > 0
    /\ state.population # <<>>
    /\ ~state.isRunning

\* One session left to itself: a single start(), no stop(), no reset() and
\* no rejected call; the timer keeps firing and every call returns.
RunNext ==
    \/ \E t \in Targets : nOps = 0 /\ StartCall(t)
    \/ \E s \in starts : StartOk(s)
    \/ \E t \in timers, f \in 0..MaxFit : TimerFire(t, f)
    \/ \E k \in ticks : TickEvolveOk(k)
    \/ \E k \in ticks : TickHistoryOk(k)
    \/ \E k \in ticks : TickBestOk(k)

SpecRun ==
    /\ Init
    /\ [][RunNext]_vars
    /\ WF_vars(\E s \in starts : StartOk(s))
    /\ WF_vars(\E t \in timers, f \in 0..MaxFit : TimerFire(t, f))
    /\ WF_vars(\E k \in ticks : TickEvolveOk(k))
    /\ WF_vars(\E k \in ticks : TickHistoryOk(k))
    /\ WF_vars(\E k \in ticks : TickBestOk(k))

\* C13: a session left to itself, whose service has answered is_complete,
\* ends in phase Complete and stays there: once its timer is cancelled and
\* every call has returned, isComplete is true and the running flag false.
C13_EndsComplete ==
    (nTimers > 0 /\ timers = {} /\ ticks = {} /\ starts = {}) =>
        (state.isComplete /\ ~state.isRunning)

\* --------------------------------------------------- the chart on its own
\* FitnessChart given histories of its own: data is a history ordered by
\* generation, grown one entry at a time, and the effect redraws on each
\* change of data.
ChartPoints ==
    {p \in [generation : 0..MaxPoints, best_fitness : 0..MaxFit,
            avg_fitness : 0..MaxFit] : p.avg_fitness <= p.best_fitness}

InitChart ==
    /\ state = [InitialState EXCEPT !.isInitialized = TRUE]
    /\ ref = 0
    /\ timers = {}
    /\ nTimers = 0
    /\ starts = {}
    /\ ticks = {}
    /\ resets = {}
    /\ svc = SvcDown
    /\ nOps = 0
    /\ obs = NoObs
    /\ canvas = Blank

\* the data prop becomes the history extended by p; the effect runs
NewPoint(p) ==
    /\ Len(state.history) < MaxPoints
    /\ state.history # <<>> =>
          p.generation > state.history[Len(state.history)].generation
    /\ state' = [state EXCEPT !.history = Append(@, p)]
    /\ canvas' = Drawn(canvas, state'.history)
    /\ UNCHANGED <<ref, timers, nTimers, starts, ticks, resets, svc, nOps, obs>>

NextChart == \E p \in ChartPoints : NewPoint(p)

SpecChart == InitChart /\ [][NextChart]_vars

\* C14: for every non-empty history the x-scale denominator maxGen is
\* max(1, largest generation in the data), so never zero, and the single
\* point of the history [{generation: 0}] is drawn at x = padding.
C14_ChartScaleClamp ==
    canvas.drawn =>
        LET data == state.history
        IN /\ canvas.maxGen >= 1
           /\ \A i \in 1..Len(data) : data[i].generation <= canvas.maxGen
           /\ \/ canvas.maxGen = 1
              \/ \E i \in 1..Len(data) : data[i].generation = canvas.maxGen
           /\ (Len(data) = 1 /\ data[1].generation = 0) =>
                 /\ canvas.xs[1].den # 0
                 /\ canvas.xs[1].num = Padding * canvas.xs[1].den

\* the single-point history with generation 0 has been drawn
C14_Witness ==
    /\ canvas.drawn
    /\ Len(state.history) = 1
    /\ state.history[1].generation = 0
    /\ canvas.maxGen = 1
    /\ canvas.xs[1].num = Padding * canvas.xs[1].den

\* the client has received an evolve response with is_complete = true
CompletionReturned == \E k \in ticks : k.pc # "evolve" /\ k.isComplete

\* C15: no evolve request is issued once an evolve response with
\* is_complete = true has been returned, even while that tick's history and
\* best calls are outstanding.
C15_NoEvolveAfterCompletionReturned ==
    [][CompletionReturned => ~Dispatch]_vars

TickIds(S) == {k.id : k \in S}

DataOf(st) ==
    <<st.population, st.generation, st.averageFitness, st.bestEver,
      st.isComplete, st.history>>

\* C16: a tick issues evolve (one generation), then history, then best, each
\* only after the one before has returned successfully; it leaves the session
\* state alone until all three have returned, and then sets population,
\* generation, averageFitness, bestEver, isComplete and history in one update.
C16_TickCallOrder ==
    [][/\ \A k2 \in ticks' \ ticks :
             /\ state' = state
             /\ IF k2.id \notin TickIds(ticks)
                THEN /\ k2.pc = "evolve"
                     /\ svc.initialized =>
                           svc'.generation = svc.generation + 1
                ELSE /\ svc' = svc
                     /\ \E k \in ticks :
                           /\ k.id = k2.id
                           /\ k.ok
                           /\ <<k.pc, k2.pc>> \in
                                 {<<"evolve", "history">>, <<"history", "best">>}
       /\ \A k \in ticks :
             k.id \notin TickIds(ticks') =>
                \/ DataOf(state') = DataOf(state)
                \/ /\ k.pc = "best" /\ k.ok
                   /\ DataOf(state') =
                         <<k.population, k.stats.generation,
                           k.stats.avg_fitness, k.bestEver, k.isComplete,
                           k.history>>]_vars

\* a tick has made its three calls and been reconciled
C16_Witness ==
    /\ state.generation > 0
    /\ state.population # <<>>
    /\ state.history # <<>>
    /\ state.bestEver # NullIndividual
    /\ state.averageFitness = state.history[Len(state.history)].avg_fitness

\* C17: whenever the session is not Running, no interval timer created by
\* the controller is still active.
C17_NoTimerUnlessRunning == ~state.isRunning => timers = {}

\* C18 as stated: a failing tick records the error cause in the session
\* state (error becomes non-null); a manual stop() leaves error unchanged.
C18_TickFailureSetsError ==
    [][/\ \A k \in ticks : TickFail(k) => state'.error # Null
       /\ Stop => state'.error = state.error]_vars

\* C18 amended: a failing tick sets the running flag to false and leaves
\* error (and every other field) as it was, exactly as a manual stop() does;
\* the cause is only logged.
C18_TickFailureKeepsError ==
    [][/\ \A k \in ticks : TickFail(k) =>
             state' = [state EXCEPT !.isRunning = FALSE]
       /\ Stop => state' = [state EXCEPT !.isRunning = FALSE]]_vars

\* a tick has failed in a session that is initialized and shows no error
C18_Witness ==
    /\ obs.tickFailed
    /\ state.isInitialized
    /\ ~state.isRunning
    /\ state.error = Null

\* C19: at most one interval timer created by the controller is active at
\* any time.
C19_AtMostOneTimer == Cardinality(timers) <= 1

\* C20: a tick dispatched before the latest start() (in an earlier session)
\* that fails or returns is_complete = true neither cancels the timer of the
\* new session nor sets its running flag to false.
C20_StaleTickLeavesNewSession ==
    [][\A k \in ticks :
          (/\ k.id < obs.since
           /\ k.timer # ref
           /\ ref \in timers
           /\ state.isRunning
           /\ TickBestOk(k) \/ TickFail(k)) =>
              (timers' = timers /\ ref' = ref /\ state'.isRunning)]_vars


(***************************************************************************)
(* C21: the running flag and the isComplete flag are never both true in a  *)
(* reachable state, including after start() is invoked from the Complete   *)
(* phase without an intervening reset().                                   *)
(***************************************************************************)
C21_NeverRunningAndComplete == ~(state.isRunning /\ state.isComplete)

====
